---- MODULE Spec2Model ----
(***************************************************************************)
(* Library management backend (Express + Mongoose): the user, book and     *)
(* member collections, the JWT access-control gate (protect / authorize)   *)
(* and the request handlers of the auth, books and members controllers.    *)
(* A request is a process: every `await` on the database is a step, so     *)
(* that two requests interleave exactly where the Node event loop lets     *)
(* them.                                                                   *)
(***************************************************************************)
EXTENDS Integers, FiniteSets, Sequences, TLC

\* ---- bounds of the model ----
MaxBooks == 2
MaxClock == 2
MaxUsers == 5
MaxMembers == 2
MaxClicks == 3

\* ---- values ----
Reqs == {"r1", "r2"}
ISBNs == {"111", "222"}
Statuses == {"pending", "approved", "rejected"}
Roles == {"Admin", "Member"}
Absent == "absent"
NullUser == 0
NullDate == 0
BookIds == 1..MaxBooks
Dates == 1..MaxClock

MemberIds == 1..MaxMembers
UserIds == 1..MaxUsers
AdminEmail == "admin@library.com"
\* what a sign-up or login form can send: nothing, a lowercase address, the same
\* address typed with a capital
Emails == {"", AdminEmail, "d@x.com", "D@x.com"}
\* passwords a form can send: nothing, one shorter than 6 characters, two long enough
Passwords == {"", "abc", "secret1", "secret2"}
MembershipIds == {"M1", "M2"}

BookOps == {"createBook", "getBooks", "getPendingBooks", "getBook",
            "approveBook", "rejectBook", "updateBook", "deleteBook"}
MemberOps == {"createMember", "updateMember", "deleteMember"}
UserOps == {"updateUserRole", "deleteUser"}
\* the routes that only read members or users
ViewOps == {"getMembers", "getMember", "getProfile", "getAllUsers", "getUserById"}
\* every route that carries protect
ProtectedOps == BookOps \cup MemberOps \cup UserOps \cup ViewOps
\* the routes without protect
PublicOps == {"register", "login", "health"}
\* routes that carry authorize('Admin')
AdminOnly == {"getPendingBooks", "approveBook", "rejectBook", "updateBook", "deleteBook",
              "createMember", "updateMember", "deleteMember", "updateUserRole", "deleteUser",
              "getAllUsers", "getUserById"}
\* the :id parameter of a route: the ids a request can name
Targets(op, userIds) ==
    IF op \in {"getBook", "approveBook", "rejectBook", "updateBook", "deleteBook"} THEN BookIds
    ELSE IF op \in {"getMember", "updateMember", "deleteMember"} THEN MemberIds
    ELSE IF op \in UserOps \cup {"getUserById"} THEN userIds
    ELSE {0}

NoToken == [id |-> 0, kind |-> "none"]
\* the email / password / role fields of a request body, here of no body at all
NoBody == [email |-> "", password |-> "", role |-> Absent]

\* the server: the three collections and the requests in flight; the browser: the
\* AuthService session, the page with its delete buttons, the profile view
VARIABLES users, nextUserId, books, nextBookId, members, nextMemberId, req,
          session, page, profile
vars == <<users, nextUserId, books, nextBookId, members, nextMemberId, req,
          session, page, profile>>
db == <<users, nextUserId, books, nextBookId, members, nextMemberId>>
client == <<session, page, profile>>

\* the fields of a member body, here of no body at all
NoMember == [email |-> "", membershipId |-> "", borrowedBooks |-> {}]
\* tok is the bearer token presented, role the role protect read for it, body the
\* body of a sign-up or login, isbn the ISBN of a book body, member a member body; code, msg, data, token and shown are the response:
\* status, message, ids of the documents returned, token issued, the fields of
\* the user documents it carries, and the books its members' borrowedBooks expand to
IdleReq == [pc |-> "idle", op |-> "none", id |-> 0, tok |-> NoToken,
            role |-> "none", body |-> NoBody, isbn |-> "", member |-> NoMember,
            code |-> 0, msg |-> "",
            data |-> {}, token |-> NoToken, shown |-> {}, expanded |-> {}]

\* bcrypt.hash with a salt: not the password, and comparable only through compare
hash(password) == <<"bcrypt", password>>
\* mutant: any password accepted
comparePassword_any(candidate, stored) == TRUE

\* userSchema.methods.comparePassword: bcrypt.compare(candidatePassword, this.password)
comparePassword(candidate, stored) == stored = hash(candidate)
\* lowercase: true on the email path, applied when a document or a query is cast
lowercase(email) == IF email = "D@x.com" THEN "d@x.com" ELSE email

\* ---- browser state as the constructors leave it ----
\* null where a User is expected
NoPrincipal == [id |-> 0, role |-> "none"]
Subscribers == {"o1", "o2"}
\* AuthService constructed over a localStorage holding this token and user: the
\* subject starts at getUserFromStorage(), nobody has subscribed, no call is in flight
NewSession(token, user) ==
    [token |-> token, user |-> user, subject |-> user,
     seen |-> [s \in Subscribers |-> NoPrincipal],
     subscribed |-> {}, calls |-> {}, last |-> [outcome |-> "none", token |-> NoToken, user |-> NoPrincipal]]
\* the views with a delete button
Dashboards == {"BookDashboard", "MemberDashboard"}
Views == {"BookList", "BookDetail", "MemberList", "MemberDetail"} \cup Dashboards
\* a page just opened: no dialog shown yet, no delete request sent, the list loaded once
NewPage == [view |-> "BookList", asked |-> 0, answer |-> FALSE, inflight |-> {},
            sent |-> 0, loads |-> 0, navigated |-> FALSE]
\* ProfileComponent field initialisers
NewProfile == [alive |-> FALSE, user |-> NoPrincipal, isLoading |-> FALSE,
               errorMessage |-> "", pending |-> FALSE, requests |-> 0, calls |-> 0,
               outcome |-> "none"]

\* the admin of create-admin.js, a second admin and a member; no book, no member
Init ==
    /\ users = (1 :> [email |-> AdminEmail, password |-> hash("secret1"), role |-> "Admin"])
               @@ (2 :> [email |-> "b@x.com", password |-> hash("secret1"), role |-> "Admin"])
               @@ (3 :> [email |-> "c@x.com", password |-> hash("secret1"), role |-> "Member"])
    /\ nextUserId = 4
    /\ books = << >>
    /\ nextBookId = 1
    /\ members = << >>
    /\ nextMemberId = 1
    /\ req = [r \in Reqs |-> IdleReq]
    /\ session = NewSession(NoToken, NoPrincipal)
    /\ page = NewPage
    /\ profile = NewProfile

\* ---- token issuer / verifier ----
generateToken(id) == [id |-> id, kind |-> "valid"]
\* what a caller can put after "Bearer" besides an issued token: no token, a string
\* that is no JWT, a JWT for the admin's id signed with another secret, a token
\* issued to user 3 more than 30 days ago
BadTokens == {NoToken, [id |-> 0, kind |-> "malformed"], [id |-> 1, kind |-> "badsig"],
              [id |-> 3, kind |-> "expired"]}

\* mutant: jwt.decode in place of jwt.verify, neither signature nor expiry checked
jwtVerifies_decodeOnly(tok) == tok.kind \in {"valid", "badsig", "expired"}

\* jwt.verify: the payload, or a throw (FALSE) for an expired / bad token
jwtVerifies(tok) == tok.kind = "valid"
\* the name of the error jwt.verify throws
jwtError(tok) ==
    IF tok.kind = "expired" THEN "TokenExpiredError"
    ELSE IF tok.kind \in {"malformed", "badsig"} THEN "JsonWebTokenError"
    ELSE "none"
\* the inner catch of protect: one answer, whatever the error caught
tokenFailed(error) == [code |-> 401, msg |-> "Not authorized, token failed"]

\* ---- access-control gate ----
\* null, as findById returns it for an id no stored user has
NoUser == [email |-> "", password |-> << >>, role |-> "none"]

\* mutant: the role check dropped
authorize_anyRole(roles, role) == TRUE

authorize(roles, role) == role \in roles

\* mutant: the role the user held when the token was issued, as if it were a claim
\* of the token
protectUser_roleAtIssue(tok) ==
    [users[tok.id] EXCEPT !.role = IF tok.id \in {1, 2} THEN "Admin" ELSE "Member"]

\* protect: req.user = await User.findById(decoded.id), the stored user as it is now,
\* or null
protectUser(tok) == IF tok.id \in DOMAIN users THEN users[tok.id] ELSE NoUser

\* mutant: the check that the user still exists dropped
IsNull_never(user) == FALSE

\* if (!req.user)
IsNull(user) == user = NoUser

\* the fields of a user document
UserFields == {"_id", "name", "email", "password", "role", "createdAt", "updatedAt"}
\* .populate(path, 'name email'): the referenced user with _id and the selected fields
populate(fields, selected) == fields \cap ({"_id"} \cup selected)
\* .select('-password')
selectWithout(fields, path) == fields \ {path}
\* userSchema.methods.toJSON: delete obj.password
toJSON(fields) == fields \ {"password"}
\* the user fields a response shows when it carries these documents, populated
Populated(data, selected) == IF data = {} THEN {} ELSE populate(UserFields, selected)

\* mutant: a delete whose filter matches every document
findByIdAndDelete_everyDocument(collection, id) == << >>

\* Model.findByIdAndDelete(id): the collection without that document
findByIdAndDelete(collection, id) == [x \in DOMAIN collection \ {id} |-> collection[x]]

Respond(r, code, data) ==
    req' = [req EXCEPT ![r].pc = "done", ![r].code = code, ![r].data = data]
\* an answer that carries a message and no data
RespondMsg(r, code, msg) ==
    req' = [req EXCEPT ![r].pc = "done", ![r].code = code, ![r].msg = msg]
\* a book handler's answer to a body with this ISBN
RespondBook(r, isbn, code, msg, data) ==
    req' = [req EXCEPT ![r].pc = "done", ![r].isbn = isbn, ![r].code = code,
                       ![r].msg = msg, ![r].data = data,
                       ![r].shown = Populated(data, {"name", "email"})]
\* an answer with book documents whose requestedBy / reviewedBy are populated
RespondPopulated(r, code, data, selected) ==
    req' = [req EXCEPT ![r].pc = "done", ![r].code = code, ![r].data = data,
                       ![r].shown = Populated(data, selected)]

\* protect, then authorize('Admin') where the route has it: one database read
Receive(r, ops, toks, userIds) ==
    /\ req[r].pc \in {"idle", "done"}
    /\ \E op \in ops, tok \in toks : \E id \in Targets(op, userIds) :
        /\ LET start == [IdleReq EXCEPT !.op = op, !.id = id, !.tok = tok] IN
           IF tok = NoToken
             THEN req' = [req EXCEPT ![r] = [start EXCEPT !.pc = "done", !.code = 401,
                                 !.msg = "Not authorized, no token provided"]]
           ELSE IF ~jwtVerifies(tok)
             THEN req' = [req EXCEPT ![r] = [start EXCEPT !.pc = "done",
                                 !.code = tokenFailed(jwtError(tok)).code,
                                 !.msg = tokenFailed(jwtError(tok)).msg]]
           ELSE IF IsNull(protectUser(tok))
             THEN req' = [req EXCEPT ![r] = [start EXCEPT !.pc = "done", !.code = 401,
                                                          !.msg = "User not found"]]
           ELSE IF op \in AdminOnly /\ ~authorize({"Admin"}, protectUser(tok).role)
             THEN req' = [req EXCEPT ![r] = [start EXCEPT !.pc = "done", !.code = 403,
                                                          !.role = protectUser(tok).role]]
           ELSE req' = [req EXCEPT ![r] = [start EXCEPT !.pc = "handler",
                                                        !.role = protectUser(tok).role]]
    /\ UNCHANGED <<db, client>>

\* ---- books controller ----
BookBodies == [ISBN : ISBNs \cup {""}, approvalStatus : Statuses \cup {Absent},
               requestedBy : {1, NullUser}]
DuplicateBook == "Book with this ISBN already exists"
\* bookValidation: the required fields are non-empty
bookValidation(body) == body.ISBN # ""
\* mutant: an index that covers the approved books only
DuplicateISBN_approvedOnly(isbn, self) ==
    \E b \in DOMAIN books :
        b # self /\ books[b].ISBN = isbn /\ books[b].approvalStatus = "approved"

\* unique index on ISBN: another document holds it
DuplicateISBN(isbn, self) == \E b \in DOMAIN books : b # self /\ books[b].ISBN = isbn

\* mutant: the spread after requestedBy, so the body's value wins
NewBook_bodyWins(body, caller) ==
    [ISBN |-> body.ISBN,
     approvalStatus |-> IF body.approvalStatus = Absent THEN "pending" ELSE body.approvalStatus,
     requestedBy |-> IF body.requestedBy = NullUser THEN caller ELSE body.requestedBy,
     reviewedBy |-> NullUser,
     reviewedAt |-> NullDate]

\* Book.create({...req.body, requestedBy: req.user._id}) with the schema defaults
NewBook(body, caller) ==
    [ISBN |-> body.ISBN,
     approvalStatus |-> IF body.approvalStatus = Absent THEN "pending" ELSE body.approvalStatus,
     requestedBy |-> caller,
     reviewedBy |-> NullUser,
     reviewedAt |-> NullDate]

createBook(r, bodies) ==
    /\ req[r].pc = "handler" /\ req[r].op = "createBook"
    /\ \E body \in bodies :
        IF ~bookValidation(body)
          THEN RespondBook(r, body.ISBN, 400, "", {}) /\ UNCHANGED <<books, nextBookId>>
        ELSE IF DuplicateISBN(body.ISBN, 0)
          THEN /\ RespondBook(r, body.ISBN, 400, DuplicateBook, {})
               /\ UNCHANGED <<books, nextBookId>>
        ELSE /\ nextBookId <= MaxBooks
             /\ books' = books @@ (nextBookId :> NewBook(body, req[r].tok.id))
             /\ nextBookId' = nextBookId + 1
             /\ RespondBook(r, body.ISBN, 201, "", {nextBookId})
    /\ UNCHANGED <<users, nextUserId, members, nextMemberId, client>>

\* mutant: the role filter dropped, every caller gets Book.find()
VisibleBooks_unfiltered(role) == DOMAIN books

VisibleBooks(role) ==
    IF role = "Admin" THEN DOMAIN books
    ELSE {b \in DOMAIN books : books[b].approvalStatus = "approved"}

getBooks(r) ==
    /\ req[r].pc = "handler" /\ req[r].op = "getBooks"
    /\ RespondPopulated(r, 200, VisibleBooks(req[r].role), {"name", "email"})
    /\ UNCHANGED <<db, client>>

getPendingBooks(r) ==
    /\ req[r].pc = "handler" /\ req[r].op = "getPendingBooks"
    /\ RespondPopulated(r, 200, {b \in DOMAIN books : books[b].approvalStatus = "pending"},
                        {"name", "email", "role"})
    /\ UNCHANGED <<db, client>>

\* mutant: only rejected books are withheld
CanView_pendingToo(role, book) == role = "Admin" \/ book.approvalStatus # "rejected"

CanView(role, book) == role = "Admin" \/ book.approvalStatus = "approved"

getBook(r) ==
    /\ req[r].pc = "handler" /\ req[r].op = "getBook"
    /\ IF req[r].id \notin DOMAIN books THEN Respond(r, 404, {})
       ELSE IF ~CanView(req[r].role, books[req[r].id]) THEN Respond(r, 403, {})
       ELSE RespondPopulated(r, 200, {req[r].id}, {"name", "email"})
    /\ UNCHANGED <<db, client>>

\* the guard of approveBook / rejectBook: the status that makes the handler refuse
ApproveRefuses(status) == status = "approved"
RejectRefuses(status) == status = "rejected"

approveBookFind(r) ==
    /\ req[r].pc = "handler" /\ req[r].op = "approveBook"
    /\ IF req[r].id \notin DOMAIN books THEN Respond(r, 404, {})
       ELSE IF ApproveRefuses(books[req[r].id].approvalStatus) THEN Respond(r, 400, {})
       ELSE req' = [req EXCEPT ![r].pc = "write"]
    /\ UNCHANGED <<db, client>>

rejectBookFind(r) ==
    /\ req[r].pc = "handler" /\ req[r].op = "rejectBook"
    /\ IF req[r].id \notin DOMAIN books THEN Respond(r, 404, {})
       ELSE IF RejectRefuses(books[req[r].id].approvalStatus) THEN Respond(r, 400, {})
       ELSE req' = [req EXCEPT ![r].pc = "write"]
    /\ UNCHANGED <<db, client>>

\* mutant: a conditional update, findOneAndUpdate({_id, approvalStatus: 'pending'}, ...)
Review_ifPending(r, status) ==
    IF req[r].id \in DOMAIN books /\ books[req[r].id].approvalStatus = "pending"
      THEN /\ \E t \in Dates :
                books' = [books EXCEPT ![req[r].id].approvalStatus = status,
                                       ![req[r].id].reviewedBy = req[r].tok.id,
                                       ![req[r].id].reviewedAt = t]
           /\ Respond(r, 200, {req[r].id})
      ELSE /\ UNCHANGED books
           /\ Respond(r, 400, {})

\* mutant: the document replaced by the three fields, not updated with them
Review_replaces(r, status) ==
    IF req[r].id \in DOMAIN books
      THEN /\ \E t \in Dates :
                books' = [books EXCEPT ![req[r].id] =
                             [ISBN |-> "", approvalStatus |-> status,
                              requestedBy |-> NullUser,
                              reviewedBy |-> req[r].tok.id, reviewedAt |-> t]]
           /\ RespondPopulated(r, 200, {req[r].id}, {"name", "email"})
      ELSE /\ UNCHANGED books
           /\ Respond(r, 200, {})

\* Book.findByIdAndUpdate(id, {approvalStatus, reviewedBy, reviewedAt}, {new: true}):
\* unconditional on the stored status; a missing document gives null, not an error
Review(r, status) ==
    IF req[r].id \in DOMAIN books
      THEN /\ \E t \in Dates :
                books' = [books EXCEPT ![req[r].id].approvalStatus = status,
                                       ![req[r].id].reviewedBy = req[r].tok.id,
                                       ![req[r].id].reviewedAt = t]
           /\ RespondPopulated(r, 200, {req[r].id}, {"name", "email"})
      ELSE /\ UNCHANGED books
           /\ Respond(r, 200, {})

approveBookUpdate(r) ==
    /\ req[r].pc = "write" /\ req[r].op = "approveBook"
    /\ Review(r, "approved")
    /\ UNCHANGED <<users, nextUserId, nextBookId, members, nextMemberId, client>>

rejectBookUpdate(r) ==
    /\ req[r].pc = "write" /\ req[r].op = "rejectBook"
    /\ Review(r, "rejected")
    /\ UNCHANGED <<users, nextUserId, nextBookId, members, nextMemberId, client>>

updateBookFind(r) ==
    /\ req[r].pc = "handler" /\ req[r].op = "updateBook"
    /\ \E valid \in BOOLEAN :
        IF ~valid THEN Respond(r, 400, {})
        ELSE IF req[r].id \notin DOMAIN books THEN Respond(r, 404, {})
        ELSE req' = [req EXCEPT ![r].pc = "write"]
    /\ UNCHANGED <<db, client>>

\* $set of the body's paths
SetBody(book, body) ==
    [book EXCEPT !.ISBN = body.ISBN,
                 !.approvalStatus = IF body.approvalStatus = Absent THEN @ ELSE body.approvalStatus,
                 !.requestedBy = IF body.requestedBy = NullUser THEN @ ELSE body.requestedBy]

updateBookUpdate(r, bodies) ==
    /\ req[r].pc = "write" /\ req[r].op = "updateBook"
    /\ \E body \in {x \in bodies : bookValidation(x)} :
        IF req[r].id \notin DOMAIN books
          THEN RespondBook(r, body.ISBN, 200, "", {}) /\ UNCHANGED books
        ELSE IF DuplicateISBN(body.ISBN, req[r].id)
          THEN RespondBook(r, body.ISBN, 400, DuplicateBook, {}) /\ UNCHANGED books
        ELSE /\ books' = [books EXCEPT ![req[r].id] = SetBody(@, body)]
             /\ RespondBook(r, body.ISBN, 200, "", {req[r].id})
    /\ UNCHANGED <<users, nextUserId, nextBookId, members, nextMemberId, client>>

deleteBookFind(r) ==
    /\ req[r].pc = "handler" /\ req[r].op = "deleteBook"
    /\ IF req[r].id \notin DOMAIN books THEN Respond(r, 404, {})
       ELSE req' = [req EXCEPT ![r].pc = "write"]
    /\ UNCHANGED <<db, client>>

deleteBookDelete(r) ==
    /\ req[r].pc = "write" /\ req[r].op = "deleteBook"
    /\ books' = findByIdAndDelete(books, req[r].id)
    /\ Respond(r, 200, {})
    /\ UNCHANGED <<users, nextUserId, nextBookId, members, nextMemberId, client>>

\* ---- members controller ----
MemberBodies == [email : {"", "m@x.com", "n@x.com"}, membershipId : MembershipIds,
                 borrowedBooks : {{}, {1}}]
\* memberValidation: the required fields are non-empty
memberValidation(body) == body.email # ""
\* mutant: a unique index on email only
DuplicateFields_emailOnly(body, self) ==
    {f \in {"email"} : \E m \in DOMAIN members : m # self /\ members[m][f] = body[f]}

\* unique indexes on email and membershipId: the indexed fields whose value another
\* document holds (error.keyPattern names one of them)
DuplicateFields(body, self) ==
    {f \in {"email", "membershipId"} :
        \E m \in DOMAIN members : m # self /\ members[m][f] = body[f]}
DuplicateMember(body, self) == DuplicateFields(body, self) # {}
\* `Member with this ${field} already exists`
MemberExists(field) ==
    IF field = "email" THEN "Member with this email already exists"
    ELSE "Member with this membershipId already exists"
\* a member handler's answer to this body
RespondMember(r, body, code, msg, data) ==
    req' = [req EXCEPT ![r].pc = "done", ![r].member = body, ![r].code = code,
                       ![r].msg = msg, ![r].data = data]

\* Member.find().populate('borrowedBooks', ...): every member
\* populate('borrowedBooks', ...): the stored books among the ids the member holds
populateBooks(ids) == ids \cap DOMAIN books

\* the title, author and ISBN of these books go out with the member documents
RespondExpanded(r, code, data, expanded) ==
    req' = [req EXCEPT ![r].pc = "done", ![r].code = code, ![r].data = data,
                       ![r].expanded = expanded]

getMembers(r) ==
    /\ req[r].pc = "handler" /\ req[r].op = "getMembers"
    /\ RespondExpanded(r, 200, DOMAIN members,
                       UNION {populateBooks(members[m].borrowedBooks) : m \in DOMAIN members})
    /\ UNCHANGED <<db, client>>

\* Member.findById(id).populate('borrowedBooks', ...): data is the populated books
getMember(r) ==
    /\ req[r].pc = "handler" /\ req[r].op = "getMember"
    /\ IF req[r].id \notin DOMAIN members THEN RespondMsg(r, 404, "Member not found")
       ELSE RespondExpanded(r, 200, populateBooks(members[req[r].id].borrowedBooks),
                            populateBooks(members[req[r].id].borrowedBooks))
    /\ UNCHANGED <<db, client>>

createMember(r, bodies) ==
    /\ req[r].pc = "handler" /\ req[r].op = "createMember"
    /\ \E body \in bodies :
        IF ~memberValidation(body)
          THEN RespondMember(r, body, 400, "", {}) /\ UNCHANGED <<members, nextMemberId>>
        ELSE IF DuplicateMember(body, 0)
          THEN /\ \E field \in DuplicateFields(body, 0) :
                    RespondMember(r, body, 400, MemberExists(field), {})
               /\ UNCHANGED <<members, nextMemberId>>
        ELSE /\ nextMemberId <= MaxMembers
             /\ members' = members @@ (nextMemberId :> body)
             /\ nextMemberId' = nextMemberId + 1
             /\ RespondMember(r, body, 201, "", {nextMemberId})
    /\ UNCHANGED <<users, nextUserId, books, nextBookId, client>>

updateMemberFind(r) ==
    /\ req[r].pc = "handler" /\ req[r].op = "updateMember"
    /\ \E valid \in BOOLEAN :
        IF ~valid THEN Respond(r, 400, {})
        ELSE IF req[r].id \notin DOMAIN members THEN Respond(r, 404, {})
        ELSE req' = [req EXCEPT ![r].pc = "write"]
    /\ UNCHANGED <<db, client>>

updateMemberUpdate(r, bodies) ==
    /\ req[r].pc = "write" /\ req[r].op = "updateMember"
    /\ \E body \in {x \in bodies : memberValidation(x)} :
        IF req[r].id \notin DOMAIN members
          THEN RespondMember(r, body, 200, "", {}) /\ UNCHANGED members
        ELSE IF DuplicateMember(body, req[r].id)
          THEN /\ \E field \in DuplicateFields(body, req[r].id) :
                    RespondMember(r, body, 400, MemberExists(field), {})
               /\ UNCHANGED members
        ELSE /\ members' = [members EXCEPT ![req[r].id] = body]
             /\ RespondMember(r, body, 200, "", {req[r].id})
    /\ UNCHANGED <<users, nextUserId, books, nextBookId, nextMemberId, client>>

deleteMemberFind(r) ==
    /\ req[r].pc = "handler" /\ req[r].op = "deleteMember"
    /\ IF req[r].id \notin DOMAIN members THEN Respond(r, 404, {})
       ELSE req' = [req EXCEPT ![r].pc = "write"]
    /\ UNCHANGED <<db, client>>

deleteMemberDelete(r) ==
    /\ req[r].pc = "write" /\ req[r].op = "deleteMember"
    /\ members' = findByIdAndDelete(members, req[r].id)
    /\ Respond(r, 200, {})
    /\ UNCHANGED <<users, nextUserId, books, nextBookId, nextMemberId, client>>

\* ---- auth controller ----
\* mutant: the whole document put in the response
userSummary_wholeDocument(fields) == fields

\* user: { id: user._id, name: user.name, email: user.email, role: user.role }
userSummary(fields) == fields \cap {"_id", "name", "email", "role"}

\* User.findOne({ email }): the query value is cast by the schema, so lowercased
findOneByEmail(email) == {u \in DOMAIN users : users[u].email = lowercase(email)}
\* the documents holding this address: the findOne of register
EmailTaken(email) == findOneByEmail(email) # {}

\* mutant: no unique index on email
DuplicateKey_noIndex(email) == FALSE

\* email: {unique: true, lowercase: true}: User.create fails with 11000 when a
\* stored document holds the lowercased address
DuplicateKey(email) == \E u \in DOMAIN users : users[u].email = lowercase(email)

\* mutant: the role stored as the body gave it
RegisteredRole_asGiven(role) == role

\* role: role || 'Member'
RegisteredRole(role) == IF role = Absent THEN "Member" ELSE role

RegisterBodies == [email : Emails, password : Passwords \ {""},
                   role : Roles \cup {Absent, "Librarian"}]
\* registerValidation: email not empty, password of 6 characters or more, role
\* absent or one of Admin, Member
registerValidation(body) ==
    /\ body.email # ""
    /\ body.password \notin {"", "abc"}
    /\ body.role \in Roles \cup {Absent}

\* POST /register is public: registerValidation, then User.findOne({ email })
registerFind(r, bodies) ==
    /\ req[r].pc \in {"idle", "done"}
    /\ \E body \in bodies :
        LET start == [IdleReq EXCEPT !.op = "register", !.body = body] IN
        IF ~registerValidation(body)
          THEN req' = [req EXCEPT ![r] = [start EXCEPT !.pc = "done", !.code = 400]]
        ELSE IF EmailTaken(body.email)
          THEN req' = [req EXCEPT ![r] = [start EXCEPT !.pc = "done", !.code = 400,
                                              !.msg = "User already exists with this email"]]
        ELSE req' = [req EXCEPT ![r] = [start EXCEPT !.pc = "write"]]
    /\ UNCHANGED <<db, client>>

\* mutant: the user found by findOne named in the token, not the one created
registerToken_firstUser(id) == generateToken(1)

\* const token = generateToken(user._id)
registerToken(id) == generateToken(id)

\* User.create({name, email, password, role: role || 'Member'}): the pre-save hook
\* hashes the password; 11000 on the unique index
registerCreate(r) ==
    /\ req[r].pc = "write" /\ req[r].op = "register"
    /\ IF DuplicateKey(req[r].body.email)
         THEN /\ req' = [req EXCEPT ![r].pc = "done", ![r].code = 400,
                                    ![r].msg = "User already exists with this email"]
              /\ UNCHANGED <<users, nextUserId>>
         ELSE /\ nextUserId <= MaxUsers
              /\ users' = users @@ (nextUserId :>
                             [email |-> lowercase(req[r].body.email),
                              password |-> hash(req[r].body.password),
                              role |-> RegisteredRole(req[r].body.role)])
              /\ nextUserId' = nextUserId + 1
              /\ req' = [req EXCEPT ![r].pc = "done", ![r].code = 201,
                                    ![r].data = {nextUserId},
                                    ![r].token = registerToken(nextUserId),
                                    ![r].shown = userSummary(UserFields)]
    /\ UNCHANGED <<books, nextBookId, members, nextMemberId, client>>

LoginBodies == [email : Emails, password : Passwords, role : {Absent}]
\* loginValidation: email and password not empty
loginValidation(body) == body.email # "" /\ body.password # ""

\* POST /login is public: User.findOne({ email }).select('+password'), then
\* user.comparePassword(password) on the document in hand
login(r, bodies) ==
    /\ req[r].pc \in {"idle", "done"}
    /\ \E body \in bodies :
        LET start == [IdleReq EXCEPT !.op = "login", !.body = body] IN
        IF ~loginValidation(body)
          THEN req' = [req EXCEPT ![r] = [start EXCEPT !.pc = "done", !.code = 400]]
        ELSE IF findOneByEmail(body.email) = {}
          THEN req' = [req EXCEPT ![r] = [start EXCEPT !.pc = "done", !.code = 401,
                                                       !.msg = "Invalid credentials"]]
        ELSE \E u \in findOneByEmail(body.email) :
               IF ~comparePassword(body.password, users[u].password)
                 THEN req' = [req EXCEPT ![r] = [start EXCEPT !.pc = "done", !.code = 401,
                                                              !.msg = "Invalid credentials"]]
                 ELSE req' = [req EXCEPT ![r] = [start EXCEPT !.pc = "done", !.code = 200,
                                                              !.data = {u},
                                                              !.token = generateToken(u),
                                                              !.shown = userSummary(UserFields)]]
    /\ UNCHANGED <<db, client>>

\* mutant: the self-target guard dropped
IsSelf_never(target, caller) == FALSE

\* user._id.toString() === req.user._id.toString()
IsSelf(target, caller) == target = caller

\* GET /profile: req.user as protect loaded it, select('-password'), one document read
\* by the gate; the response picks id, name, email, role, createdAt
getProfile(r) ==
    /\ req[r].pc = "handler" /\ req[r].op = "getProfile"
    /\ req' = [req EXCEPT ![r].pc = "done", ![r].code = 200, ![r].data = {req[r].tok.id},
                          ![r].shown = selectWithout(UserFields, "password")
                                         \cap {"_id", "name", "email", "role", "createdAt"}]
    /\ UNCHANGED <<db, client>>

\* User.find().select('-password'), serialised by toJSON
getAllUsers(r) ==
    /\ req[r].pc = "handler" /\ req[r].op = "getAllUsers"
    /\ req' = [req EXCEPT ![r].pc = "done", ![r].code = 200, ![r].data = DOMAIN users,
                          ![r].shown = IF DOMAIN users = {} THEN {}
                                       ELSE toJSON(selectWithout(UserFields, "password"))]
    /\ UNCHANGED <<db, client>>

\* User.findById(id).select('-password'), serialised by toJSON
getUserById(r) ==
    /\ req[r].pc = "handler" /\ req[r].op = "getUserById"
    /\ IF req[r].id \notin DOMAIN users THEN RespondMsg(r, 404, "User not found")
       ELSE req' = [req EXCEPT ![r].pc = "done", ![r].code = 200, ![r].data = {req[r].id},
                               ![r].shown = toJSON(selectWithout(UserFields, "password"))]
    /\ UNCHANGED <<db, client>>

\* GET /api/health: no gate, no database
health(r) ==
    /\ req[r].pc \in {"idle", "done"}
    /\ req' = [req EXCEPT ![r] = [IdleReq EXCEPT !.pc = "done", !.op = "health", !.code = 200]]
    /\ UNCHANGED <<db, client>>

updateUserRoleFind(r) ==
    /\ req[r].pc = "handler" /\ req[r].op = "updateUserRole"
    /\ \E valid \in BOOLEAN :
        IF ~valid THEN Respond(r, 400, {})
        ELSE IF req[r].id \notin DOMAIN users THEN Respond(r, 404, {})
        ELSE IF IsSelf(req[r].id, req[r].tok.id)
          THEN RespondMsg(r, 400, "You cannot change your own role")
        ELSE req' = [req EXCEPT ![r].pc = "write"]
    /\ UNCHANGED <<db, client>>

\* user.role = role; user.save(): an update of the one modified path; on a document
\* deleted meanwhile save() finds nothing to update (an error when role was modified)
updateUserRoleSave(r) ==
    /\ req[r].pc = "write" /\ req[r].op = "updateUserRole"
    /\ \E role \in Roles :
        IF req[r].id \in DOMAIN users
          THEN /\ users' = [users EXCEPT ![req[r].id].role = role]
               /\ req' = [req EXCEPT ![r].pc = "done", ![r].code = 200,
                                     ![r].data = {req[r].id},
                                     ![r].shown = userSummary(UserFields)]
          ELSE /\ UNCHANGED users
               /\ \E code \in {200, 500} : Respond(r, code, {})
    /\ UNCHANGED <<nextUserId, books, nextBookId, members, nextMemberId, client>>

deleteUserFind(r) ==
    /\ req[r].pc = "handler" /\ req[r].op = "deleteUser"
    /\ IF req[r].id \notin DOMAIN users THEN Respond(r, 404, {})
       ELSE IF IsSelf(req[r].id, req[r].tok.id)
         THEN RespondMsg(r, 400, "You cannot delete your own account")
       ELSE req' = [req EXCEPT ![r].pc = "write"]
    /\ UNCHANGED <<db, client>>

deleteUserDelete(r) ==
    /\ req[r].pc = "write" /\ req[r].op = "deleteUser"
    /\ users' = findByIdAndDelete(users, req[r].id)
    /\ Respond(r, 200, {})
    /\ UNCHANGED <<nextUserId, books, nextBookId, members, nextMemberId, client>>

\* ---- the sequential client: one request at a time, every book route ----
SeqTokens == {generateToken(1), generateToken(3), [id |-> 3, kind |-> "expired"], NoToken}

Next ==
    \/ Receive("r1", BookOps, SeqTokens, {})
    \/ createBook("r1", BookBodies)
    \/ getBooks("r1")
    \/ getPendingBooks("r1")
    \/ getBook("r1")
    \/ approveBookFind("r1")
    \/ approveBookUpdate("r1")
    \/ rejectBookFind("r1")
    \/ rejectBookUpdate("r1")
    \/ updateBookFind("r1")
    \/ updateBookUpdate("r1", BookBodies)
    \/ deleteBookFind("r1")
    \/ deleteBookDelete("r1")

Spec == Init /\ [][Next]_vars

\* ---- two reviewers at work: admin 1 on r1 (who also submits books), admin 2 on r2 ----
RaceNext ==
    \/ Receive("r1", {"createBook", "approveBook", "rejectBook"}, {generateToken(1)}, {})
    \/ Receive("r2", {"approveBook", "rejectBook"}, {generateToken(2)}, {})
    \/ createBook("r1", BookBodies)
    \/ \E r \in Reqs : approveBookFind(r)
    \/ \E r \in Reqs : approveBookUpdate(r)
    \/ \E r \in Reqs : rejectBookFind(r)
    \/ \E r \in Reqs : rejectBookUpdate(r)

RaceSpec == Init /\ [][RaceNext]_vars

\* ---- the access-control client: one request at a time over the admin-only routes, ----
\* ---- the public registration and the book views, while roles change            ----
AccessOps == {"createBook", "getBooks", "getBook", "approveBook", "rejectBook",
              "updateBook", "deleteBook", "createMember", "updateMember", "deleteMember",
              "updateUserRole", "deleteUser"}
AccessTokens == {generateToken(1), generateToken(3), [id |-> 3, kind |-> "expired"]}
PlainMembers == {b \in MemberBodies : b.email # "n@x.com" /\ b.borrowedBooks = {}}
GateMembers == {b \in PlainMembers : b.membershipId = "M1"}
PlainBodies == {b \in BookBodies : b.ISBN \in {"", "111"} /\ b.approvalStatus = Absent
                                    /\ b.requestedBy = NullUser}

AccessNext ==
    \/ Receive("r1", AccessOps, AccessTokens, {1, 3})
    \/ updateUserRoleFind("r1")
    \/ updateUserRoleSave("r1")
    \/ deleteUserFind("r1")
    \/ deleteUserDelete("r1")
    \/ createMember("r1", GateMembers)
    \/ updateMemberFind("r1")
    \/ updateMemberUpdate("r1", GateMembers)
    \/ deleteMemberFind("r1")
    \/ deleteMemberDelete("r1")
    \/ createBook("r1", PlainBodies)
    \/ getBooks("r1")
    \/ getBook("r1")
    \/ approveBookFind("r1")
    \/ approveBookUpdate("r1")
    \/ rejectBookFind("r1")
    \/ rejectBookUpdate("r1")
    \/ updateBookFind("r1")
    \/ updateBookUpdate("r1", PlainBodies)
    \/ deleteBookFind("r1")
    \/ deleteBookDelete("r1")

AccessSpec == Init /\ [][AccessNext]_vars

\* ---- the registration desk: public sign-up next to the user management routes ----
RegisterNext ==
    \/ registerFind("r1", RegisterBodies)
    \/ registerCreate("r1")
    \/ login("r1", LoginBodies)
    \/ Receive("r1", UserOps, {generateToken(1), generateToken(4)}, UserIds)
    \/ updateUserRoleFind("r1")
    \/ updateUserRoleSave("r1")
    \/ deleteUserFind("r1")
    \/ deleteUserDelete("r1")

RegisterSpec == Init /\ [][RegisterNext]_vars

\* ---- the front door: every route of the server, with good and bad bearer tokens ----
GateTokens == {generateToken(1), generateToken(3)} \cup BadTokens
GateRegister == {b \in RegisterBodies :
                    b.email = "d@x.com" /\ b.password = "secret1" /\ b.role = Absent}
GateLogin == {b \in LoginBodies : b.email = AdminEmail /\ b.password \in {"secret1", "secret2"}}

\* the routes the holders of good tokens use here; a bad token tries every route
GateOps == {"createBook", "getBooks", "deleteBook", "createMember", "deleteMember",
            "getProfile", "deleteUser"}

GateNext ==
    \/ Receive("r1", ProtectedOps, BadTokens, {3})
    \/ Receive("r1", GateOps, {generateToken(1), generateToken(3)}, {3})
    \/ registerFind("r1", GateRegister)
    \/ registerCreate("r1")
    \/ login("r1", GateLogin)
    \/ health("r1")
    \/ getProfile("r1")
    \/ deleteUserFind("r1")
    \/ deleteUserDelete("r1")
    \/ createMember("r1", GateMembers)
    \/ deleteMemberFind("r1")
    \/ deleteMemberDelete("r1")
    \/ createBook("r1", PlainBodies)
    \/ getBooks("r1")
    \/ deleteBookFind("r1")
    \/ deleteBookDelete("r1")

GateSpec == Init /\ [][GateNext]_vars

\* ---- every route answered: sign-up, login and every route behind the gate, for ----
\* ---- an Admin and a Member with good tokens                                     ----
ViewNext ==
    \/ Receive("r1", ProtectedOps, {generateToken(1), generateToken(3)}, {3})
    \/ registerFind("r1", GateRegister)
    \/ registerCreate("r1")
    \/ login("r1", GateLogin)
    \/ getProfile("r1")
    \/ getAllUsers("r1")
    \/ getUserById("r1")
    \/ updateUserRoleFind("r1")
    \/ updateUserRoleSave("r1")
    \/ deleteUserFind("r1")
    \/ deleteUserDelete("r1")
    \/ getMembers("r1")
    \/ getMember("r1")
    \/ createMember("r1", GateMembers)
    \/ updateMemberFind("r1")
    \/ updateMemberUpdate("r1", GateMembers)
    \/ deleteMemberFind("r1")
    \/ deleteMemberDelete("r1")
    \/ createBook("r1", PlainBodies)
    \/ getBooks("r1")
    \/ getPendingBooks("r1")
    \/ getBook("r1")
    \/ approveBookFind("r1")
    \/ approveBookUpdate("r1")
    \/ rejectBookFind("r1")
    \/ rejectBookUpdate("r1")
    \/ updateBookFind("r1")
    \/ updateBookUpdate("r1", PlainBodies)
    \/ deleteBookFind("r1")
    \/ deleteBookDelete("r1")

ViewSpec == Init /\ [][ViewNext]_vars

\* ---- the lending desk: an Admin keeps books and the members who hold them ----
LendBodies == {b \in BookBodies : b.ISBN # "" /\ b.approvalStatus = Absent
                                   /\ b.requestedBy = NullUser}
LendMembers == {b \in MemberBodies :
                   b.email # "" /\ (b.email = "m@x.com" <=> b.membershipId = "M1")}

LendNext ==
    \/ Receive("r1", {"createBook", "deleteBook", "createMember", "getMember",
                      "updateMember", "deleteMember"}, {generateToken(1)}, {})
    \/ createBook("r1", LendBodies)
    \/ deleteBookFind("r1")
    \/ deleteBookDelete("r1")
    \/ createMember("r1", LendMembers)
    \/ getMember("r1")
    \/ updateMemberFind("r1")
    \/ updateMemberUpdate("r1", LendMembers)
    \/ deleteMemberFind("r1")
    \/ deleteMemberDelete("r1")

LendSpec == Init /\ [][LendNext]_vars

\* ---- the membership desk: an Admin registers and edits members ----
DeskMembers == {b \in MemberBodies : b.borrowedBooks = {}}

DeskNext ==
    \/ Receive("r1", MemberOps, {generateToken(1)}, {})
    \/ createMember("r1", DeskMembers)
    \/ updateMemberFind("r1")
    \/ updateMemberUpdate("r1", DeskMembers)
    \/ deleteMemberFind("r1")
    \/ deleteMemberDelete("r1")

DeskSpec == Init /\ [][DeskNext]_vars

\* ---- two admins at the user management routes: admin 1 on r1, admin 2 on r2 ----
AdminsNext ==
    \/ Receive("r1", {"updateUserRole", "deleteUser"}, {generateToken(1)}, UserIds)
    \/ Receive("r2", {"updateUserRole", "deleteUser"}, {generateToken(2)}, UserIds)
    \/ updateUserRoleFind("r1")
    \/ updateUserRoleSave("r1")
    \/ deleteUserFind("r1")
    \/ deleteUserDelete("r1")
    \/ updateUserRoleFind("r2")
    \/ updateUserRoleSave("r2")
    \/ deleteUserFind("r2")
    \/ deleteUserDelete("r2")

AdminsSpec == Init /\ [][AdminsNext]_vars

\* ---- the reading room: an Admin stocks books and members, a Member reads ----
ShelfNext ==
    \/ Receive("r1", {"createBook", "approveBook", "rejectBook", "createMember"},
               {generateToken(1)}, {})
    \/ Receive("r1", {"getBooks", "getBook", "getMembers", "getMember"},
               {generateToken(1), generateToken(3)}, {})
    \/ createBook("r1", LendBodies)
    \/ approveBookFind("r1")
    \/ approveBookUpdate("r1")
    \/ rejectBookFind("r1")
    \/ rejectBookUpdate("r1")
    \/ createMember("r1", LendMembers)
    \/ getBooks("r1")
    \/ getBook("r1")
    \/ getMembers("r1")
    \/ getMember("r1")

ShelfSpec == Init /\ [][ShelfNext]_vars

\* ---- two visitors sign up at once with the same address, in either spelling ----
SignupBodies == {b \in RegisterBodies : b.email \in {"d@x.com", "D@x.com"}
                                        /\ b.password \in {"abc", "secret1"}}

SignupNext ==
    \/ registerFind("r1", SignupBodies)
    \/ registerCreate("r1")
    \/ registerFind("r2", SignupBodies)
    \/ registerCreate("r2")

SignupSpec == Init /\ [][SignupNext]_vars

\* ---- admin 1 edits and reviews on r1 while admin 2 deletes on r2 ----
VanishNext ==
    \/ Receive("r1", {"createBook", "createMember", "approveBook", "rejectBook",
                      "updateBook", "updateMember"}, {generateToken(1)}, {})
    \/ Receive("r2", {"deleteBook", "deleteMember"}, {generateToken(2)}, {})
    \/ createBook("r1", PlainBodies)
    \/ createMember("r1", GateMembers)
    \/ approveBookFind("r1")
    \/ approveBookUpdate("r1")
    \/ rejectBookFind("r1")
    \/ rejectBookUpdate("r1")
    \/ updateBookFind("r1")
    \/ updateBookUpdate("r1", PlainBodies)
    \/ updateMemberFind("r1")
    \/ updateMemberUpdate("r1", GateMembers)
    \/ deleteBookFind("r2")
    \/ deleteBookDelete("r2")
    \/ deleteMemberFind("r2")
    \/ deleteMemberDelete("r2")

VanishSpec == Init /\ [][VanishNext]_vars

\* ---- the browser: delete buttons of the detail and dashboard views ----
server == <<db, req>>

\* mutant: the request sent whatever the dialog returned
confirm_ignored(answer) == TRUE

\* window.confirm(...): what the user chose in the dialog
confirm(answer) == answer

\* if (confirm(...)) { service.delete(id).subscribe(...) } in the view shown
clickDelete(view) ==
    /\ page.view = view /\ page.asked < MaxClicks
    /\ \E answer \in BOOLEAN :
          page' = IF confirm(answer)
                    THEN [page EXCEPT !.asked = @ + 1, !.answer = answer,
                                      !.inflight = @ \cup {view}, !.sent = @ + 1]
                    ELSE [page EXCEPT !.asked = @ + 1, !.answer = answer]
    /\ UNCHANGED <<server, session, profile>>

BookDetail_deleteBook == clickDelete("BookDetail")
BookDashboard_deleteBook == clickDelete("BookDashboard")
MemberDetail_deleteMember == clickDelete("MemberDetail")
MemberDashboard_deleteMember == clickDelete("MemberDashboard")

\* the subscribe callbacks: on success a dashboard reloads its list (loadBooks /
\* loadMembers) and a detail view navigates to the list; otherwise an alert
deleteResponse ==
    /\ \E view \in page.inflight, outcome \in {"success", "failure", "error"} :
          page' = IF outcome # "success" THEN [page EXCEPT !.inflight = @ \ {view}]
                  ELSE IF view \in Dashboards
                    THEN [page EXCEPT !.inflight = @ \ {view}, !.loads = @ + 1]
                  ELSE [page EXCEPT !.inflight = @ \ {view}, !.navigated = TRUE,
                                    !.view = IF view = "BookDetail" THEN "BookList"
                                             ELSE "MemberList"]
    /\ UNCHANGED <<server, session, profile>>

\* the user opens another view; a dashboard loads its list in ngOnInit
openView ==
    /\ \E view \in Views \ {page.view} :
          /\ view \in Dashboards => page.loads < MaxClicks
          /\ page' = [page EXCEPT !.view = view, !.navigated = FALSE,
                                  !.loads = IF view \in Dashboards THEN @ + 1 ELSE @]
    /\ UNCHANGED <<server, session, profile>>

PageNext ==
    \/ BookDetail_deleteBook
    \/ BookDashboard_deleteBook
    \/ MemberDetail_deleteMember
    \/ MemberDashboard_deleteMember
    \/ deleteResponse
    \/ openView

PageSpec == Init /\ [][PageNext]_vars

\* ---- the browser: AuthService ----
AuthCalls == {"login", "register"}
AuthResponses ==
    {[token |-> generateToken(u), user |-> [id |-> u, role |-> ro]] : u \in 1..2, ro \in Roles}

\* BehaviorSubject.next(value): the value is kept and handed to every observer
publish(s, value) ==
    [s EXCEPT !.subject = value,
              !.seen = [o \in Subscribers |-> IF o \in s.subscribed THEN value ELSE s.seen[o]]]

\* mutant: the token and the user are stored, the principal is not published
handleAuthResponse_storeOnly(s, response) ==
    [s EXCEPT !.token = response.token, !.user = response.user]

handleAuthResponse(s, response) ==
    publish([s EXCEPT !.token = response.token, !.user = response.user], response.user)

getUserFromStorage(s) == s.user
getToken(s) == s.token
isAuthenticated(s) == getToken(s) # NoToken
getCurrentUser(s) == s.subject

\* login(data) / register(data), subscribed by the form: the POST leaves
AuthService_login ==
    /\ "login" \notin session.calls
    /\ session' = [session EXCEPT !.calls = @ \cup {"login"}]
    /\ UNCHANGED <<server, page, profile>>

AuthService_register ==
    /\ "register" \notin session.calls
    /\ session' = [session EXCEPT !.calls = @ \cup {"register"}]
    /\ UNCHANGED <<server, page, profile>>

\* tap(next): a 2xx answer of login or register carries a token and its user
authNext ==
    /\ \E call \in session.calls, response \in AuthResponses :
          session' = [handleAuthResponse(session, response) EXCEPT
                        !.calls = @ \ {call},
                        !.last = [outcome |-> "next", token |-> response.token,
                                  user |-> response.user]]
    /\ UNCHANGED <<server, page, profile>>

\* any other answer, and the 30 s timeout of register: the error goes to the caller
authError ==
    /\ \E call \in session.calls :
          session' = [session EXCEPT !.calls = @ \ {call},
                                     !.last = [outcome |-> "error", token |-> NoToken,
                                               user |-> NoPrincipal]]
    /\ UNCHANGED <<server, page, profile>>

AuthService_logout ==
    /\ session' = [publish([session EXCEPT !.token = NoToken, !.user = NoPrincipal],
                           NoPrincipal) EXCEPT
                     !.last = [outcome |-> "logout", token |-> NoToken, user |-> NoPrincipal]]
    /\ session' # session
    /\ UNCHANGED <<server, page, profile>>

\* currentUser$.subscribe(...): the observer receives the current value at once
subscribe ==
    /\ \E o \in Subscribers \ session.subscribed :
          session' = [session EXCEPT !.subscribed = @ \cup {o},
                                     !.seen[o] = session.subject]
    /\ UNCHANGED <<server, page, profile>>

unsubscribe ==
    /\ \E o \in session.subscribed :
          session' = [session EXCEPT !.subscribed = @ \ {o}]
    /\ UNCHANGED <<server, page, profile>>

\* the page is loaded again: the service is constructed from localStorage
reload ==
    /\ session' = [NewSession(getToken(session), getUserFromStorage(session)) EXCEPT
                     !.last = [outcome |-> "reload", token |-> NoToken, user |-> NoPrincipal]]
    /\ session' # session
    /\ UNCHANGED <<server, page, profile>>

SessionNext ==
    \/ AuthService_login
    \/ AuthService_register
    \/ authNext
    \/ authError
    \/ AuthService_logout
    \/ subscribe
    \/ unsubscribe
    \/ reload

SessionSpec == Init /\ [][SessionNext]_vars

\* ---- the browser: ProfileComponent ----
UnableToLoad == "Unable to load profile. Please try logging in again."

\* mutant: the guard at the head of loadProfile never returns early
AlreadyLoading_never(p) == FALSE

\* if (this.isLoading) return;
AlreadyLoading(p) == p.isLoading

\* loadProfile(): one more call; unless a load is running, the flags are set, the
\* previous subscription is dropped and a GET /auth/profile leaves
loadProfile(p) ==
    IF AlreadyLoading(p) THEN [p EXCEPT !.calls = @ + 1]
    ELSE [p EXCEPT !.calls = @ + 1, !.isLoading = TRUE, !.errorMessage = "",
                   !.pending = TRUE, !.requests = @ + 1]

\* the component is created: user from the service, then loadProfile()
ProfileComponent_ngOnInit ==
    /\ ~profile.alive
    /\ profile' = loadProfile([NewProfile EXCEPT !.alive = TRUE,
                                                  !.user = getCurrentUser(session)])
    /\ UNCHANGED <<server, session, page>>

ProfileComponent_loadProfile ==
    /\ profile.alive /\ profile.calls < MaxClicks
    /\ profile' = loadProfile(profile)
    /\ UNCHANGED <<server, session, page>>

\* the else branch of next: keep the user shown, else the cached one, else complain
fallback(p, s) ==
    LET user == IF p.user # NoPrincipal THEN p.user ELSE getCurrentUser(s)
    IN  [p EXCEPT !.user = user,
                  !.errorMessage = IF user = NoPrincipal THEN UnableToLoad ELSE @]

\* the answer of GET /auth/profile reaches next; an HTTP error reaches it as
\* {success: false, user: null} through catchError
profileResponse ==
    /\ profile.alive /\ profile.pending
    /\ \E outcome \in {"success", "failure", "error"}, response \in AuthResponses :
          LET p == [profile EXCEPT !.isLoading = FALSE, !.pending = FALSE,
                                   !.outcome = outcome]
          IN  profile' = IF outcome = "success" THEN [p EXCEPT !.user = response.user]
                         ELSE fallback(p, session)
    /\ UNCHANGED <<server, session, page>>

ProfileComponent_ngOnDestroy ==
    /\ profile.alive
    /\ profile' = [profile EXCEPT !.alive = FALSE, !.pending = FALSE]
    /\ UNCHANGED <<server, session, page>>

\* logout(): the session is cleared and the router leaves the view
ProfileComponent_logout ==
    /\ profile.alive
    /\ session' = [publish([session EXCEPT !.token = NoToken, !.user = NoPrincipal],
                           NoPrincipal) EXCEPT
                     !.last = [outcome |-> "logout", token |-> NoToken, user |-> NoPrincipal]]
    /\ profile' = [profile EXCEPT !.alive = FALSE, !.pending = FALSE]
    /\ UNCHANGED <<server, page>>

ProfileNext ==
    \/ ProfileComponent_ngOnInit
    \/ ProfileComponent_loadProfile
    \/ profileResponse
    \/ ProfileComponent_ngOnDestroy
    \/ ProfileComponent_logout
    \/ AuthService_login
    \/ authNext
    \/ authError

ProfileSpec == Init /\ [][ProfileNext]_vars

\* every HTTP request ends, with an answer or with an error
ProfileLiveSpec == ProfileSpec /\ WF_vars(profileResponse)

\* ---- steps of a request, as seen from outside ----
\* r leaves its handler stage in this step
Handled(r) == req[r].pc = "handler" /\ req'[r].pc # "handler"
\* r answers in this step
Answers(r) == req[r].pc \in {"handler", "write"} /\ req'[r].pc = "done"
\* r is received (protect and authorize run) in this step
Received(r) == req[r].pc \in {"idle", "done"} /\ req'[r] # req[r]
Decided(status) == status \in {"approved", "rejected"}

\* C1: across every sequence of book operations a stored book's approvalStatus
\* changes only from pending to approved or from pending to rejected.
C1_StatusOnlyLeavesPending ==
    [][\A b \in DOMAIN books \cap DOMAIN books' :
          books'[b].approvalStatus # books[b].approvalStatus
            => /\ books[b].approvalStatus = "pending"
               /\ Decided(books'[b].approvalStatus)]_vars

\* C2: approveBook on a book that carries a reject decision, or rejectBook on a
\* book that carries an approve decision (status, reviewer and timestamp written by
\* the first call), answers 400 and leaves the book as the first call wrote it.
C2_SecondDecisionRefused ==
    [][\A r \in Reqs :
          ( /\ Handled(r)
            /\ req[r].op \in {"approveBook", "rejectBook"}
            /\ req[r].id \in DOMAIN books
            /\ Decided(books[req[r].id].approvalStatus)
            /\ books[req[r].id].reviewedBy # NullUser )
            => /\ req'[r].pc = "done"
               /\ req'[r].code = 400
               /\ books' = books]_vars

ReviewStatus(op) == IF op = "approveBook" THEN "approved" ELSE "rejected"

\* C3: a review request that has passed its status check writes its decision
\* whatever the book's status has become meanwhile: it answers 200 and the stored
\* status, reviewer and review date are its own, the other reviewer's are gone.
C3_LastReviewWins ==
    [][\A r \in Reqs :
          (req[r].pc = "write" /\ req[r].op \in {"approveBook", "rejectBook"}
              /\ req'[r].pc = "done")
            => /\ req'[r].code = 200
               /\ req[r].id \in DOMAIN books
                    => /\ books'[req[r].id].approvalStatus = ReviewStatus(req[r].op)
                       /\ books'[req[r].id].reviewedBy = req[r].tok.id
                       /\ books'[req[r].id].reviewedAt \in Dates
                       /\ req'[r].data = {req[r].id}]_vars

\* both reviewers passed the check on the same book before either write landed: one
\* has written and answered 200, the other one, asking for the same decision (which
\* its check would have refused after that write), is about to overwrite it
C3_Witness ==
    \E r1, r2 \in Reqs :
        /\ r1 # r2
        /\ req[r1].pc = "write" /\ req[r2].pc = "done" /\ req[r2].code = 200
        /\ req[r1].op \in {"approveBook", "rejectBook"}
        /\ req[r1].op = req[r2].op /\ req[r1].id = req[r2].id
        /\ req[r1].id \in DOMAIN books
        /\ books[req[r1].id].approvalStatus = ReviewStatus(req[r2].op)
        /\ books[req[r1].id].reviewedBy = req[r2].tok.id
        /\ req[r1].tok.id # req[r2].tok.id

\* C4: a book created by a non-admin caller starts pending with no reviewer and no
\* review date, whatever the validated body holds, and a book becomes approved only
\* in a step of an Admin's request.
C4_MemberBookStartsPending ==
    [][/\ \A r \in Reqs :
            (Answers(r) /\ req[r].op = "createBook" /\ req[r].role # "Admin"
                /\ req'[r].code = 201)
              => \A b \in req'[r].data :
                    /\ books'[b].approvalStatus = "pending"
                    /\ books'[b].reviewedBy = NullUser
                    /\ books'[b].reviewedAt = NullDate
       /\ \A b \in DOMAIN books' :
            ( /\ books'[b].approvalStatus = "approved"
              /\ (b \notin DOMAIN books \/ books[b].approvalStatus # "approved") )
              => \E r \in Reqs : Answers(r) /\ req[r].role = "Admin"]_vars

C6_ListingIsRoleFiltered ==
    [][\A r \in Reqs :
          /\ (Answers(r) /\ req[r].op = "getBooks")
               => /\ req'[r].code = 200
                  /\ req[r].role = "Admin" => req'[r].data = DOMAIN books
                  /\ req[r].role # "Admin"
                       => req'[r].data = {b \in DOMAIN books : books[b].approvalStatus = "approved"}
          /\ (Answers(r) /\ req[r].op = "getPendingBooks")
               => /\ req[r].role = "Admin"
                  /\ req'[r].code = 200
                  /\ req'[r].data = {b \in DOMAIN books : books[b].approvalStatus = "pending"}
          /\ (Received(r) /\ req'[r].op = "getPendingBooks" /\ jwtVerifies(req'[r].tok)
                /\ req'[r].tok.id \in DOMAIN users /\ users[req'[r].tok.id].role # "Admin")
               => req'[r].pc = "done" /\ req'[r].code = 403 /\ req'[r].data = {}]_vars

\* a Member's listing that left out a stored, not approved book and returned an
\* approved one
C6_Witness ==
    \E r \in Reqs :
        /\ req[r].pc = "done" /\ req[r].op = "getBooks" /\ req[r].code = 200
        /\ req[r].role = "Member"
        /\ \E b \in req[r].data : b \in DOMAIN books /\ books[b].approvalStatus = "approved"
        /\ \E b \in DOMAIN books \ req[r].data : books[b].approvalStatus # "approved"

\* C7: getBook answers a non-admin asking for a stored pending or rejected book
\* with 403 and no data, its own requester included; it answers an Admin with the
\* book in any status, and a non-admin with an approved book.
C7_GetBookVisibility ==
    [][\A r \in Reqs :
          (Answers(r) /\ req[r].op = "getBook" /\ req[r].id \in DOMAIN books)
            => IF req[r].role # "Admin" /\ books[req[r].id].approvalStatus # "approved"
                 THEN req'[r].code = 403 /\ req'[r].data = {}
                 ELSE req'[r].code = 200 /\ req'[r].data = {req[r].id}]_vars

\* the requester of a pending book, a Member, asked for it and got 403
C7_Witness ==
    \E r \in Reqs :
        /\ req[r].pc = "done" /\ req[r].op = "getBook" /\ req[r].code = 403
        /\ req[r].role = "Member" /\ req[r].data = {}
        /\ req[r].id \in DOMAIN books
        /\ books[req[r].id].approvalStatus = "pending"
        /\ books[req[r].id].requestedBy = req[r].tok.id

AdminMutations == {"updateBook", "deleteBook", "approveBook", "rejectBook",
                   "createMember", "updateMember", "deleteMember",
                   "updateUserRole", "deleteUser"}
\* the request received in this step names, in its token, a stored user who is no Admin
FromNonAdmin(r) ==
    /\ Received(r)
    /\ req'[r].tok.id \in DOMAIN users
    /\ users[req'[r].tok.id].role # "Admin"

\* C8 as stated: a caller whose current role is not Admin gets 403 from every
\* admin-only mutation, whether or not its token is valid, and nothing stored changes.
C8_NonAdminAlways403 ==
    [][\A r \in Reqs :
          (FromNonAdmin(r) /\ req'[r].op \in AdminMutations)
            => req'[r].pc = "done" /\ req'[r].code = 403 /\ db' = db]_vars

\* C8 amended: a caller whose current role is not Admin is answered by the gate,
\* 403 when its token verifies and 401 when it does not; the request never reaches
\* its handler and nothing stored changes; and whatever an admin-only mutation
\* changes, it changes for a caller the gate saw as Admin.
C8_NonAdminRefused ==
    [][\A r \in Reqs :
          /\ (FromNonAdmin(r) /\ req'[r].op \in AdminMutations)
               => /\ req'[r].pc = "done"
                  /\ req'[r].code = IF jwtVerifies(req'[r].tok) THEN 403 ELSE 401
                  /\ db' = db
          /\ (Answers(r) /\ req[r].op \in AdminMutations /\ db' # db)
               => req[r].role = "Admin"]_vars

\* a Member asked to delete a stored book, to delete a stored member or to delete a
\* stored user, and was answered 403; the record is still there
C8_Witness ==
    \E r \in Reqs :
        /\ req[r].pc = "done" /\ req[r].code = 403 /\ req[r].role = "Member"
        /\ jwtVerifies(req[r].tok)
        /\ \/ req[r].op = "deleteBook" /\ req[r].id \in DOMAIN books
           \/ req[r].op = "deleteMember" /\ req[r].id \in DOMAIN members
           \/ req[r].op = "deleteUser" /\ req[r].id \in DOMAIN users
        /\ DOMAIN books # {} /\ DOMAIN members # {}

\* C9: the gate authorizes a request against the role its user holds in the store
\* when the request arrives, whatever that user's role was when the token was
\* issued: on an admin-only route 403 exactly when that role is not Admin, and the
\* book views filter by that role.
C9_RoleReadPerRequest ==
    [][\A r \in Reqs :
          /\ (Received(r) /\ req'[r].op # "register" /\ jwtVerifies(req'[r].tok)
                /\ req'[r].tok.id \in DOMAIN users)
               => /\ req'[r].role = users[req'[r].tok.id].role
                  /\ IF req'[r].op \in AdminOnly /\ users[req'[r].tok.id].role # "Admin"
                       THEN req'[r].pc = "done" /\ req'[r].code = 403
                       ELSE req'[r].pc = "handler"
          /\ (Answers(r) /\ req[r].op = "getBooks" /\ req[r].role # "Admin")
               => \A b \in req'[r].data : books[b].approvalStatus = "approved"
          /\ (Answers(r) /\ req[r].op = "getBook" /\ req[r].role # "Admin"
                /\ req[r].id \in DOMAIN books
                /\ books[req[r].id].approvalStatus # "approved")
               => req'[r].code = 403]_vars

\* user 1, Admin at first and since demoted by the promoted user 3, presents its
\* token on an admin-only route and gets 403
C9_Witness ==
    \E r \in Reqs :
        /\ req[r].pc = "done" /\ req[r].code = 403 /\ req[r].op \in AdminOnly
        /\ req[r].tok = generateToken(1)
        /\ req[r].role = "Member"
        /\ 1 \in DOMAIN users /\ users[1].role = "Member"
        /\ 3 \in DOMAIN users /\ users[3].role = "Admin"

\* C10: a user record obtains role Admin only in a step of a request that the gate
\* authenticated as an Admin's; a public registration never creates an Admin.
C10_OnlyAdminsMakeAdmins ==
    [][\A u \in DOMAIN users' :
          (users'[u].role = "Admin" /\ (u \notin DOMAIN users \/ users[u].role # "Admin"))
            => \E r \in Reqs : Answers(r) /\ req[r].op # "register" /\ req[r].role = "Admin"]_vars

\* the register request r runs User.create in this step
Creates(r) == req[r].pc = "write" /\ req[r].op = "register" /\ req'[r].pc = "done"
\* r, a public sign-up or login, is answered or passed on in this step
Arrives(r, op) == req[r].pc \in {"idle", "done"} /\ req'[r] # req[r] /\ req'[r].op = op
\* the stored users holding the address a body names
Holders(body) == {u \in DOMAIN users : users[u].email = lowercase(body.email)}
DuplicateUser == "User already exists with this email"

\* C11: a valid registration whose email no stored user holds answers 201, adds
\* exactly one user, with that email, and returns a token that verifies and decodes
\* to the new user's id; a valid registration whose email a stored user holds answers
\* 400 "User already exists with this email", issues no token and leaves the users
\* as they were.
C11_RegisterOnceThenDuplicate ==
    [][\A r \in Reqs :
          /\ (Creates(r) /\ Holders(req[r].body) = {})
               => /\ req'[r].code = 201
                  /\ \E n \in DOMAIN users' \ DOMAIN users :
                        /\ DOMAIN users' = DOMAIN users \cup {n}
                        /\ users'[n].email = lowercase(req[r].body.email)
                        /\ req'[r].data = {n}
                        /\ jwtVerifies(req'[r].token) /\ req'[r].token.id = n
                  /\ \A u \in DOMAIN users : users'[u] = users[u]
          /\ (Creates(r) /\ Holders(req[r].body) # {})
               => /\ req'[r].code = 400 /\ req'[r].msg = DuplicateUser
                  /\ req'[r].token = NoToken /\ users' = users
          /\ (Arrives(r, "register") /\ registerValidation(req'[r].body))
               => IF Holders(req'[r].body) # {}
                    THEN /\ req'[r].pc = "done" /\ req'[r].code = 400
                         /\ req'[r].msg = DuplicateUser
                         /\ req'[r].token = NoToken /\ users' = users
                    ELSE req'[r].pc = "write" /\ users' = users]_vars

\* user 4 registered, and a second registration of its address (here typed with a
\* capital) was refused as a duplicate; user 4 is as its registration left it
C11_Witness ==
    \E r \in Reqs :
        /\ req[r].pc = "done" /\ req[r].op = "register" /\ req[r].code = 400
        /\ req[r].msg = DuplicateUser
        /\ req[r].body.email = "D@x.com"
        /\ 4 \in DOMAIN users /\ users[4].email = "d@x.com"
        /\ Cardinality(DOMAIN users) = 4

\* C12: a login with a non-empty email and password answers 401 "Invalid
\* credentials" with no token when no stored user holds the email or when the
\* holder's stored hash is not the hash of the password sent, and otherwise 200
\* with a token that verifies and decodes to the holder's id; nothing stored changes.
C12_LoginChecksPassword ==
    [][\A r \in Reqs :
          (Arrives(r, "login") /\ loginValidation(req'[r].body))
            => /\ req'[r].pc = "done" /\ db' = db
               /\ IF \E u \in Holders(req'[r].body) :
                        users[u].password = hash(req'[r].body.password)
                    THEN /\ req'[r].code = 200
                         /\ req'[r].data \subseteq Holders(req'[r].body)
                         /\ Cardinality(req'[r].data) = 1
                         /\ jwtVerifies(req'[r].token)
                         /\ req'[r].token.id \in req'[r].data
                    ELSE /\ req'[r].code = 401 /\ req'[r].msg = "Invalid credentials"
                         /\ req'[r].token = NoToken /\ req'[r].data = {}]_vars

\* user 4, registered here with password secret2, logged in with it and got a token
\* for id 4
C12_Witness ==
    \E r \in Reqs :
        /\ req[r].pc = "done" /\ req[r].op = "login" /\ req[r].code = 200
        /\ req[r].body.password = "secret2"
        /\ req[r].data = {4} /\ req[r].token = generateToken(4)
        /\ 4 \in DOMAIN users /\ users[4].password = hash("secret2")

\* C13: a registration whose body has no role creates a user with role Member, and
\* the role of every stored user is Admin or Member after every step.
C13_RoleDefaultsToMember ==
    [][/\ \A r \in Reqs :
            (Creates(r) /\ req[r].body.role = Absent /\ req'[r].code = 201)
              => \A n \in req'[r].data : users'[n].role = "Member"
       /\ \A u \in DOMAIN users' : users'[u].role \in {"Admin", "Member"}]_vars

\* a registration without role answered 201 and its user is stored as Member
C13_Witness ==
    \E r \in Reqs :
        /\ req[r].pc = "done" /\ req[r].op = "register" /\ req[r].code = 201
        /\ req[r].body.role = Absent
        /\ \E n \in req[r].data : n \in DOMAIN users /\ users[n].role = "Member"

\* C14: createBook, by an Admin or not, with a valid body whose ISBN a stored book
\* holds (in any approval status, whoever requested it), and the update of a stored
\* book to an ISBN another stored book holds, answer 400 "Book with this ISBN
\* already exists" and change no book; and no two stored books ever share an ISBN.
C14_IsbnUnique ==
    [][/\ \A r \in Reqs :
            /\ ( /\ Answers(r) /\ req[r].op = "createBook" /\ req'[r].isbn # ""
                 /\ \E b \in DOMAIN books : books[b].ISBN = req'[r].isbn )
                 => /\ req'[r].code = 400 /\ req'[r].msg = DuplicateBook
                    /\ books' = books
            /\ ( /\ Answers(r) /\ req[r].op = "updateBook" /\ req[r].pc = "write"
                 /\ req[r].id \in DOMAIN books
                 /\ \E b \in DOMAIN books \ {req[r].id} : books[b].ISBN = req'[r].isbn )
                 => /\ req'[r].code = 400 /\ req'[r].msg = DuplicateBook
                    /\ books' = books
       /\ \A b1, b2 \in DOMAIN books' : b1 # b2 => books'[b1].ISBN # books'[b2].ISBN]_vars

\* a Member's createBook was refused as a duplicate of a pending book that the
\* Admin requested
C14_Witness ==
    \E r \in Reqs :
        /\ req[r].pc = "done" /\ req[r].op = "createBook" /\ req[r].role = "Member"
        /\ req[r].code = 400 /\ req[r].msg = DuplicateBook
        /\ \E b \in DOMAIN books :
              /\ books[b].ISBN = req[r].isbn
              /\ books[b].approvalStatus = "pending"
              /\ books[b].requestedBy = 1

\* C15: updateUserRole or deleteUser whose target is the caller's own stored record
\* answers 400 and leaves the users as they were; and a stored user's record changes
\* or disappears only in the answer of an updateUserRole or deleteUser request that
\* the gate passed as an Admin's and that names that user, never the caller itself.
C15_UsersChangeOnlyByOtherAdmin ==
    [][/\ \A r \in Reqs :
            ( /\ Handled(r) /\ req[r].op \in UserOps
              /\ req[r].id = req[r].tok.id /\ req[r].id \in DOMAIN users )
              => req'[r].pc = "done" /\ req'[r].code = 400 /\ users' = users
       /\ \A u \in DOMAIN users :
            (u \notin DOMAIN users' \/ users'[u] # users[u])
              => \E r \in Reqs :
                    /\ Answers(r) /\ req[r].op \in UserOps
                    /\ req[r].role = "Admin"
                    /\ req[r].id = u /\ req[r].tok.id # u]_vars

\* an Admin asked to delete its own account, was refused, and is still a stored Admin
C15_Witness ==
    \E r \in Reqs :
        /\ req[r].pc = "done" /\ req[r].op = "deleteUser" /\ req[r].code = 400
        /\ req[r].msg = "You cannot delete your own account"
        /\ req[r].id = req[r].tok.id
        /\ req[r].id \in DOMAIN users /\ users[req[r].id].role = "Admin"

\* the token is one the server issued to some user id less than 30 days ago
Genuine(tok) == \E u \in UserIds : tok = generateToken(u)
\* the request received in this step is for a route behind protect and its bearer
\* token is missing or is not a genuine one
BadlyAuthenticated(r) ==
    /\ Received(r) /\ req'[r].op \in ProtectedOps
    /\ (req'[r].tok = NoToken \/ ~Genuine(req'[r].tok))

\* C16: a request to any book, member, profile or user-management route whose
\* bearer token is missing, malformed, wrongly signed or expired is answered 401 by
\* the gate with no data, and nothing stored changes; a request is in or past a
\* handler of such a route only with a token that verifies; and whatever changes the
\* store is the answer of a registration or of a request whose token verifies.
C16_AuthenticateFirst ==
    [][/\ \A r \in Reqs :
            /\ BadlyAuthenticated(r)
                 => /\ req'[r].pc = "done" /\ req'[r].code = 401
                    /\ req'[r].data = {} /\ req'[r].shown = {}
                    /\ db' = db
            /\ (req'[r].op \in ProtectedOps /\ (req'[r].pc \in {"handler", "write"}
                                                 \/ req'[r].code # 401))
                 => Genuine(req'[r].tok)
            /\ req'[r].op \notin ProtectedOps => req'[r].op \in PublicOps \cup {"none"}
       /\ db' # db
            => \E r \in Reqs :
                  /\ Answers(r)
                  /\ (req[r].op = "register" \/ Genuine(req[r].tok))]_vars

\* a token for the Admin's id signed with another secret asked to delete a stored
\* book and got 401; the book is still stored
C16_Witness ==
    \E r \in Reqs :
        /\ req[r].pc = "done" /\ req[r].code = 401 /\ req[r].op = "deleteBook"
        /\ req[r].tok.kind = "badsig" /\ req[r].tok.id = 1
        /\ req[r].id \in DOMAIN books
        /\ 1 \in DOMAIN users /\ users[1].role = "Admin"

\* C17: the id of a deleted user is never a stored user's id again, and a request to
\* any route behind protect, admin-only or not, whose token verifies but names no
\* stored user is answered 401 and changes nothing.
C17_DeletedUserLockedOut ==
    [][/\ \A u \in 1..(nextUserId - 1) : u \notin DOMAIN users => u \notin DOMAIN users'
       /\ \A r \in Reqs :
            ( /\ Received(r) /\ req'[r].op \in ProtectedOps
              /\ Genuine(req'[r].tok)
              /\ req'[r].tok.id \notin DOMAIN users )
              => /\ req'[r].pc = "done" /\ req'[r].code = 401
                 /\ req'[r].data = {} /\ db' = db]_vars

\* user 3 was deleted; the token issued to it before then asked for the book list,
\* which needs no role, and got 401
C17_Witness ==
    \E r \in Reqs :
        /\ req[r].pc = "done" /\ req[r].code = 401 /\ req[r].op = "getBooks"
        /\ req[r].tok = generateToken(3)
        /\ 3 \notin DOMAIN users /\ nextUserId > 3

\* C18: no response carries the password field of a user document: not that of
\* register, login, profile, user list, user by id or role update, and not that of a
\* book route with populated requestedBy / reviewedBy.
C18_PasswordNeverShown ==
    [][\A r \in Reqs : "password" \notin req'[r].shown]_vars

\* a login that read the stored hash (select('+password')) answered 200 with the
\* user's id, name, email and role only
C18_Witness ==
    \E r \in Reqs :
        /\ req[r].pc = "done" /\ req[r].op = "login" /\ req[r].code = 200
        /\ req[r].shown = {"_id", "name", "email", "role"}
        /\ \A u \in req[r].data : users[u].password = hash(req[r].body.password)

\* C19: a request whose token fails verification ends at the gate, and the answer
\* to an expired token differs (in status or message) from the answer the gate gives
\* to a malformed token, and the other way round.
C19_ExpiredAndMalformedDiffer ==
    [][\A r \in Reqs :
          (BadlyAuthenticated(r) /\ req'[r].tok.kind \in {"expired", "malformed"})
            => /\ req'[r].pc = "done" /\ db' = db
               /\ \A other \in BadTokens :
                     (other.kind \in {"expired", "malformed"} /\ other.kind # req'[r].tok.kind)
                       => <<req'[r].code, req'[r].msg>>
                            # <<tokenFailed(jwtError(other)).code,
                                tokenFailed(jwtError(other)).msg>>]_vars

\* the request r runs its findByIdAndDelete in this step
Deletes(r, op) == req[r].pc = "write" /\ req[r].op = op /\ req'[r].pc = "done"

\* C20: the delete of a member removes that member, leaves every other member as it
\* was and changes no book; the delete of a book removes that book, leaves every
\* other book as it was and changes no member, so a member that held the book's id
\* in borrowedBooks still holds it.
C20_DeleteDoesNotCascade ==
    [][\A r \in Reqs :
          /\ Deletes(r, "deleteMember")
               => /\ DOMAIN members' = DOMAIN members \ {req[r].id}
                  /\ \A m \in DOMAIN members' : members'[m] = members[m]
                  /\ books' = books /\ users' = users
          /\ Deletes(r, "deleteBook")
               => /\ DOMAIN books' = DOMAIN books \ {req[r].id}
                  /\ \A b \in DOMAIN books' : books'[b] = books[b]
                  /\ members' = members /\ users' = users]_vars

\* book 1 was deleted while another book stayed; a stored member still holds id 1
\* in borrowedBooks, and getMember would populate nothing for it
C20_Witness ==
    \E r \in Reqs :
        /\ req[r].pc = "done" /\ req[r].op = "deleteBook" /\ req[r].code = 200
        /\ req[r].id = 1 /\ 1 \notin DOMAIN books /\ DOMAIN books # {}
        /\ \E m \in DOMAIN members :
              1 \in members[m].borrowedBooks /\ populateBooks(members[m].borrowedBooks) = {}

\* the indexed member fields whose value in this body a stored member other than
\* self holds
Clashes(body, self) ==
    {f \in {"email", "membershipId"} :
        \E m \in DOMAIN members \ {self} : members[m][f] = body[f]}

\* C21: no two stored members share an email or a membershipId; a createMember with
\* a valid body, or the update of a stored member, whose email or membershipId
\* another stored member holds answers 400 with "Member with this <field> already
\* exists" for a field that clashes, and changes no member.
C21_MemberKeysUnique ==
    [][/\ \A m1, m2 \in DOMAIN members' :
            m1 # m2 => /\ members'[m1].email # members'[m2].email
                       /\ members'[m1].membershipId # members'[m2].membershipId
       /\ \A r \in Reqs :
            /\ ( /\ Answers(r) /\ req[r].op = "createMember"
                 /\ req'[r].member.email # ""
                 /\ Clashes(req'[r].member, 0) # {} )
                 => /\ req'[r].code = 400
                    /\ \E f \in Clashes(req'[r].member, 0) :
                          req'[r].msg = "Member with this " \o f \o " already exists"
                    /\ members' = members
            /\ ( /\ Answers(r) /\ req[r].op = "updateMember" /\ req[r].pc = "write"
                 /\ req[r].id \in DOMAIN members
                 /\ Clashes(req'[r].member, req[r].id) # {} )
                 => /\ req'[r].code = 400
                    /\ \E f \in Clashes(req'[r].member, req[r].id) :
                          req'[r].msg = "Member with this " \o f \o " already exists"
                    /\ members' = members]_vars

\* a createMember with a fresh email and a held membershipId was refused, naming
\* membershipId
C21_Witness ==
    \E r \in Reqs :
        /\ req[r].pc = "done" /\ req[r].op = "createMember" /\ req[r].code = 400
        /\ req[r].msg = "Member with this membershipId already exists"
        /\ \A m \in DOMAIN members : members[m].email # req[r].member.email
        /\ \E m \in DOMAIN members : members[m].membershipId = req[r].member.membershipId

\* C22: a delete request leaves the browser only in the step in which the user has
\* just confirmed the dialog of a delete button; in a step in which the user declines
\* the dialog no request is sent, no list is reloaded and no navigation happens; and a
\* list is loaded only when a delete request is answered or a dashboard is opened.
C22_ConfirmBeforeDelete ==
    [][/\ (page'.sent # page.sent \/ ~(page'.inflight \subseteq page.inflight))
            => /\ page'.asked = page.asked + 1 /\ page'.answer = TRUE
               /\ page'.sent = page.sent + 1
               /\ page'.inflight = page.inflight \cup {page.view}
       /\ (page'.asked = page.asked + 1 /\ page'.answer = FALSE)
            => /\ page'.sent = page.sent /\ page'.inflight = page.inflight
               /\ page'.loads = page.loads /\ page'.navigated = page.navigated
               /\ page'.view = page.view
       /\ page'.loads # page.loads
            => \/ page'.inflight # page.inflight /\ page'.inflight \subseteq page.inflight
               \/ page'.view # page.view /\ page'.view \in Dashboards]_vars

\* one delete was confirmed, sent, answered and followed by a reload; the next
\* dialog was declined and nothing more was sent or reloaded
C22_Witness ==
    /\ page.view = "MemberDashboard" /\ page.asked = 2 /\ page.answer = FALSE
    /\ page.sent = 1 /\ page.loads = 2 /\ page.inflight = {}

\* C23: in every state of the browser the stored token is present exactly when a
\* principal is published, the stored user is the published principal, and every
\* observer of currentUser$ holds the published principal; in the step in which a
\* login or register answer is taken, token, stored user and principal become those
\* of the answer; a failed call changes none of them; and after logout all three
\* are cleared.
C23_SessionConsistent ==
    /\ [](/\ isAuthenticated(session) <=> getCurrentUser(session) # NoPrincipal
          /\ getUserFromStorage(session) = getCurrentUser(session)
          /\ \A o \in session.subscribed : session.seen[o] = getCurrentUser(session))
    /\ [][/\ (session'.calls # session.calls /\ session'.calls \subseteq session.calls
                /\ session'.last.outcome = "next")
               => /\ session'.token = session'.last.token
                  /\ session'.token.id = session'.last.user.id
                  /\ session'.user = session'.last.user
                  /\ session'.subject = session'.last.user
          /\ (session'.calls # session.calls /\ session'.calls \subseteq session.calls
                /\ session'.last.outcome = "error")
               => /\ session'.token = session.token /\ session'.user = session.user
                  /\ session'.subject = session.subject
          /\ (session'.last.outcome = "logout" /\ session' # session)
               => /\ session'.token = NoToken /\ session'.user = NoPrincipal
                  /\ session'.subject = NoPrincipal
                  /\ \A o \in session'.subscribed : session'.seen[o] = NoPrincipal]_vars

\* a second login replaced the principal of the first while an observer watched
C23_Witness ==
    /\ session.last.outcome = "next" /\ session.token = generateToken(2)
    /\ session.subject = [id |-> 2, role |-> "Member"]
    /\ session.subscribed = Subscribers
    /\ \A o \in Subscribers : session.seen[o] = session.subject
    /\ "register" \in session.calls

\* C24: while the profile view lives, a running load has a request in flight and
\* isLoading eventually becomes false (or the view is left); the step that takes
\* the answer clears isLoading whatever the outcome; a loadProfile call made while
\* a load runs sends no request; on a failure body or an error the view keeps the
\* user it shows, else takes the cached principal, and shows an error message
\* exactly when neither exists; a success shows the user of the answer.
C24_NoInfiniteLoading ==
    /\ [](profile.alive /\ profile.isLoading => profile.pending)
    /\ [][/\ (profile.pending /\ profile'.alive /\ ~profile'.pending)
               => /\ ~profile'.isLoading
                  /\ profile'.requests = profile.requests
                  /\ profile'.outcome = "success"
                       => profile'.user # NoPrincipal /\ profile'.errorMessage = ""
                  /\ profile'.outcome # "success"
                       => /\ profile'.user = IF profile.user # NoPrincipal THEN profile.user
                                             ELSE session.subject
                          /\ profile'.errorMessage # ""
                               <=> profile.user = NoPrincipal /\ session.subject = NoPrincipal
          /\ (profile.alive /\ profile.isLoading /\ profile'.calls = profile.calls + 1)
               => /\ profile'.requests = profile.requests
                  /\ profile'.pending = profile.pending
                  /\ profile'.isLoading]_vars
    /\ (profile.alive /\ profile.isLoading) ~> (~profile.isLoading \/ ~profile.alive)

\* loadProfile was called again while the first load ran, one request was sent, it
\* failed, and with no cached principal the error message is shown
C24_Witness ==
    /\ profile.alive /\ ~profile.isLoading /\ profile.outcome = "error"
    /\ profile.calls = 2 /\ profile.requests = 1
    /\ profile.user = NoPrincipal /\ profile.errorMessage = UnableToLoad

\* C25: in every state each book has neither reviewer nor review date exactly when
\* it is pending, and has both, the reviewer being an Admin user, exactly when it is
\* approved or rejected.
C25_ReviewMetadataMatchesStatus ==
    \A b \in DOMAIN books :
        /\ books[b].approvalStatus = "pending"
             <=> books[b].reviewedBy = NullUser /\ books[b].reviewedAt = NullDate
        /\ books[b].approvalStatus \in {"approved", "rejected"}
             <=> books[b].reviewedBy # NullUser /\ books[b].reviewedAt # NullDate
        /\ books[b].reviewedBy # NullUser
             => /\ books[b].reviewedBy \in DOMAIN users
                /\ users[books[b].reviewedBy].role = "Admin"

\* C26: in every state reached by updateUserRole and deleteUser requests, in
\* sequence or interleaved, some user has the role Admin.
C26_AnAdminRemains == \E u \in DOMAIN users : users[u].role = "Admin"

\* C27: a 200 answer of a read route open to every authenticated caller (getBooks,
\* getBook, getMembers, getMember), given to a caller who is not an Admin, carries
\* the title, author and ISBN of approved books only, the books its members'
\* borrowedBooks expand to included.
C27_OnlyApprovedBooksShown ==
    [][\A r \in Reqs :
          (Answers(r) /\ req[r].op \in {"getBooks", "getBook", "getMembers", "getMember"}
              /\ req[r].role # "Admin" /\ req'[r].code = 200)
            => \A b \in (IF req[r].op \in {"getBooks", "getBook"} THEN req'[r].data
                         ELSE req'[r].expanded) :
                   b \in DOMAIN books /\ books[b].approvalStatus = "approved"]_vars

\* C28: no two stored users share an email; a register request answered 201 has
\* just created a user with its (lowercased) email and carries that user's token;
\* a register request whose email is already stored when it is answered gets 400
\* and creates nothing; so of the requests in flight with one email at most one
\* ends with 201.
C28_OneRegistrationPerEmail ==
    /\ [](/\ \A u, v \in DOMAIN users : users[u].email = users[v].email => u = v
          /\ \A r, q \in Reqs :
                ( /\ r # q /\ req[r].op = "register" /\ req[q].op = "register"
                  /\ req[r].pc = "done" /\ req[q].pc = "done"
                  /\ lowercase(req[r].body.email) = lowercase(req[q].body.email) )
                  => ~(req[r].code = 201 /\ req[q].code = 201))
    /\ [][\A r \in Reqs :
            (req[r].pc = "write" /\ req[r].op = "register" /\ req'[r].pc = "done")
              => IF \E u \in DOMAIN users : users[u].email = lowercase(req[r].body.email)
                   THEN req'[r].code = 400 /\ users' = users
                   ELSE /\ req'[r].code = 201
                        /\ \E u \in DOMAIN users' \ DOMAIN users :
                              /\ users'[u].email = lowercase(req[r].body.email)
                              /\ req'[r].token = generateToken(u)]_vars

\* both requests passed the existence check before either created; the first has
\* created its user and got 201, the second stands before User.create with the
\* same address in another spelling
C28_Witness ==
    /\ req["r1"].op = "register" /\ req["r2"].op = "register"
    /\ req["r1"].pc = "done" /\ req["r1"].code = 201
    /\ req["r2"].pc = "write"
    /\ req["r1"].body.email = "D@x.com" /\ req["r2"].body.email = "d@x.com"
    /\ \E u \in DOMAIN users : users[u].email = "d@x.com"

\* C29: a step of approveBook or rejectBook leaves the set of books, every other
\* book, the ISBN and requestedBy of the targeted book, and every member and user
\* record as they were; only approvalStatus, reviewedBy and reviewedAt of the
\* targeted book may change.
C29_ReviewTouchesOnlyReview ==
    [][\A r \in Reqs :
          (req[r].op \in {"approveBook", "rejectBook"} /\ req[r].pc \in {"handler", "write"}
              /\ req'[r] # req[r])
            => /\ DOMAIN books' = DOMAIN books
               /\ \A b \in DOMAIN books :
                     IF b = req[r].id
                       THEN /\ books'[b].ISBN = books[b].ISBN
                            /\ books'[b].requestedBy = books[b].requestedBy
                       ELSE books'[b] = books[b]
               /\ members' = members /\ users' = users
               /\ nextBookId' = nextBookId]_vars

\* a rejection was written on one book while a second book and a member who holds
\* the first are stored
C29_Witness ==
    /\ req["r1"].op = "rejectBook" /\ req["r1"].pc = "done" /\ req["r1"].code = 200
    /\ req["r1"].id = 1 /\ DOMAIN books = {1, 2}
    /\ books[1].approvalStatus = "rejected" /\ books[1].reviewedBy = 1
    /\ books[1].reviewedAt # NullDate /\ books[1].requestedBy = 1
    /\ books[2].reviewedBy = NullUser
    /\ \E m \in DOMAIN members : members[m].borrowedBooks = {1}

\* C30: a 200 answer of approveBook, rejectBook, updateBook or updateMember is given
\* only when the targeted record is stored at the write and carries that record;
\* when the record was deleted after the existence check the answer is 404.
C30_SuccessMeansWritten ==
    [][\A r \in Reqs :
          (req[r].pc = "write" /\ req'[r].pc = "done"
              /\ req[r].op \in {"approveBook", "rejectBook", "updateBook", "updateMember"})
            => LET stored == IF req[r].op = "updateMember" THEN DOMAIN members
                             ELSE DOMAIN books
               IN  IF req[r].id \in stored
                     THEN req'[r].code = 200 => req'[r].data = {req[r].id}
                     ELSE req'[r].code = 404]_vars
====
